---- MODULE Spec2Model ----
(***************************************************************************)
(* Garbage detection service: lazy model loading (app/services/detection), *)
(* the /detect route (app/routes) and the startup warmup (app/main).       *)
(* Requests are handled one at a time on the event loop: detect() is an    *)
(* async handler whose body calls the synchronous service, so each handler *)
(* is one atomic action.                                                   *)
(***************************************************************************)
EXTENDS Integers, Sequences, FiniteSets

\* ---------------------------------------------------------------- bounds
\* YOLO constructor invocations explored in one run
MaxCtorCalls == 3
\* input image sides 1..MaxSmallSide and MAX_SIDE-MaxSideDelta..MAX_SIDE+MaxSideDelta
MaxSmallSide == 2
MaxSideDelta == 2
\* results returned by one model call, and boxes in one result
MaxLen == 2

\* ------------------------------------------------------- program constants
None == "None"
MAX_SIDE == 640
\* confidences are counted in units of 10^-5; round(max_conf, 4) keeps 10^-4
ConfScale == 100000
RoundUnit == 10
CONF_THRESH == 25000
MAX_UPLOAD_BYTES == 5 * 1024 * 1024
PretrainedName == "yolov8n.pt"
HfPath == "hf_cache/best.pt"

\* values YOLO_MODEL_PATH takes: unset, empty, or a path
EnvPaths == {"a.pt"}
EnvValues == {None, ""} \cup EnvPaths
AllPaths == EnvPaths \cup {HfPath}

VARIABLES
    YOLO,            \* ultralytics import: None when it failed
    Image,           \* PIL import: None when it failed
    DEFAULT_CUSTOM,  \* path of the import-time download, or None
    environ,         \* value of os.environ[YOLO_MODEL_PATH] (None = unset)
    exists,          \* paths p for which Path(p).exists()
    cache,           \* lru_cache(maxsize=1) of _get_model: None or the model
    ctorCalls,       \* YOLO(...) invocations so far
    ctorOk,          \* YOLO(...) invocations that returned a model
    ctorArg,         \* argument of the latest YOLO(...) invocation
    model_ready_flag,\* what model_ready() returns
    last             \* the latest call and its outcome

vars == <<YOLO, Image, DEFAULT_CUSTOM, environ, exists, cache, ctorCalls,
          ctorOk, ctorArg, model_ready_flag, last>>

config == <<YOLO, Image, DEFAULT_CUSTOM>>
loader == <<cache, ctorCalls, ctorOk, ctorArg>>

\* ------------------------------------------------------------ pure helpers
Max(a, b) == IF a >= b THEN a ELSE b

_select_weight_path_noexists(env, dc, ex) ==
    IF env # None /\ env # "" THEN env
    ELSE IF dc # None /\ dc \in ex THEN dc
    ELSE None

\* Priority: env var path if it exists, then the download if present, else None
_select_weight_path(env, dc, ex) ==
    IF env # None /\ env # "" /\ env \in ex THEN env
    ELSE IF dc # None /\ dc \in ex THEN dc
    ELSE None

\* the name _get_model hands to YOLO(...)
WeightName(env, dc, ex) ==
    LET weight == _select_weight_path(env, dc, ex)
    IN  IF weight # None THEN weight ELSE PretrainedName

\* ------------------------------------------------------------ _get_model
NoModel == [id |-> 0, weight |-> None]

_get_model_nocache(ok) ==
    IF YOLO = None
    THEN [exc |-> "ModelLoadError", model |-> NoModel, ctor |-> FALSE, arg |-> ctorArg]
    ELSE LET name == WeightName(environ, DEFAULT_CUSTOM, exists)
         IN  IF ok
             THEN [exc |-> "none", model |-> [id |-> ctorCalls + 1, weight |-> name],
                   ctor |-> TRUE, arg |-> name]
             ELSE [exc |-> "Exception", model |-> NoModel, ctor |-> TRUE, arg |-> name]

\* One call of the lru_cache-wrapped _get_model. ok: whether YOLO(...) returns
\* a model or raises (unreadable weights, failed download of yolov8n.pt).
\* A raising call stores nothing in the cache. The best-effort model.to(DEVICE)
\* and half() are swallowed by their try/except and change nothing modelled here.
_get_model(ok) ==
    IF cache # NoModel
    THEN [exc |-> "none", model |-> cache, ctor |-> FALSE, arg |-> ctorArg]
    ELSE IF YOLO = None
    THEN [exc |-> "ModelLoadError", model |-> NoModel, ctor |-> FALSE, arg |-> ctorArg]
    ELSE LET name == WeightName(environ, DEFAULT_CUSTOM, exists)
         IN  IF ok
             THEN [exc |-> "none", model |-> [id |-> ctorCalls + 1, weight |-> name],
                   ctor |-> TRUE, arg |-> name]
             ELSE [exc |-> "Exception", model |-> NoModel, ctor |-> TRUE, arg |-> name]

\* the effect of a _get_model call g on the cache and the constructor counters
Loaded(g) ==
    /\ g.ctor => ctorCalls < MaxCtorCalls
    /\ cache' = IF g.exc = "none" THEN g.model ELSE cache
    /\ ctorCalls' = IF g.ctor THEN ctorCalls + 1 ELSE ctorCalls
    /\ ctorOk' = IF g.ctor /\ g.exc = "none" THEN ctorOk + 1 ELSE ctorOk
    /\ ctorArg' = g.arg

\* ------------------------------------------------------- _maybe_downscale
NoSize == <<0, 0>>
MaxOf(size) == Max(size[1], size[2])

\* int(x * (MAX_SIDE / float(m))): the double product is the exact quotient
\* x*MAX_SIDE/m up to a relative error of 2^-52, so truncation gives its floor,
\* except that an exactly integral quotient q may come out just below q and
\* truncate to q - 1 (1077 * (640 / 1077.0) = 639.99...).
TruncScaled(x, m) ==
    LET q == (x * MAX_SIDE) \div m
    IN  IF (x * MAX_SIDE) % m = 0 THEN {q - 1, q} ELSE {q}

_maybe_downscale_noclamp(size) ==
    {[exc |-> "none", size |-> size]}

\* The outcomes of _maybe_downscale on an image of the given size. resize()
\* with a zero side is Pillow's business: it raises ValueError or returns an
\* empty image.
_maybe_downscale(size) ==
    IF Image = None THEN {[exc |-> "none", size |-> size]}
    ELSE LET m == MaxOf(size)
         IN  IF m <= MAX_SIDE THEN {[exc |-> "none", size |-> size]}
             ELSE UNION {
                    IF new_w < 1 \/ new_h < 1
                    THEN {[exc |-> "Exception", size |-> NoSize],
                          [exc |-> "none", size |-> <<new_w, new_h>>]}
                    ELSE {[exc |-> "none", size |-> <<new_w, new_h>>]}
                  : new_w \in TruncScaled(size[1], m), new_h \in TruncScaled(size[2], m)}

\* --------------------------------------------------- detect_garbage_bytes
\* One element of the model's result list: boxes is None (has = FALSE) or a
\* Boxes object whose conf tensor is the sequence conf.
\* Box confidences (at or above CONF_THRESH, at most 1): one that round(x, 4)
\* rounds down, one on a decimal tie, one that it rounds up.
Confs == {CONF_THRESH + 4, CONF_THRESH + 5, ConfScale - 4}

RECURSIVE SeqMax(_)
SeqMax(s) == IF s = <<>> THEN 0 ELSE Max(Head(s), SeqMax(Tail(s)))

\* the loop over results: (total, max_conf) after the results in rs
RECURSIVE Tally(_, _, _)
Tally(rs, total, max_conf) ==
    IF rs = <<>> THEN <<total, max_conf>>
    ELSE LET r == Head(rs)
             count == Len(r.conf)
             cmax == SeqMax(r.conf)
         IN  IF ~r.has THEN Tally(Tail(rs), total, max_conf)
             ELSE Tally(Tail(rs), total + count,
                        IF count # 0 /\ cmax > max_conf THEN cmax ELSE max_conf)

\* round(x, 4): the multiples of 10^-4 nearest to x. A decimal tie is decided
\* by the binary value of the double, so either neighbour can come out.
Round4_trunc(c) == {c - (c % RoundUnit)}

Round4(c) ==
    LET lo == c - (c % RoundUnit)
    IN  IF 2 * (c % RoundUnit) < RoundUnit THEN {lo}
        ELSE IF 2 * (c % RoundUnit) > RoundUnit THEN {lo + RoundUnit}
        ELSE {lo, lo + RoundUnit}

NoResult ==
    [garbage_detected |-> FALSE, detections |-> -1, max_confidence |-> -1,
     confidence_threshold |-> -1, resized |-> FALSE]

\* the returned dictionary; img is the image handed to the model
ResultDict(t, mc, img) ==
    [garbage_detected |-> t > 0, detections |-> t, max_confidence |-> mc,
     confidence_threshold |-> CONF_THRESH,
     resized |-> IF MaxOf(img) <= MAX_SIDE THEN TRUE ELSE FALSE]

Raised(exc, steps) ==
    [exc |-> exc, steps |-> steps, passed |-> NoSize, result |-> NoResult]

\* The outcomes of detect_garbage_bytes(data).
\*   g        the outcome of its _get_model() call
\*   img      the size of the image data decodes to, NoSize for undecodable data
\*   inferOk  whether model(img, ...) returns or raises
\*   results  what model(img, ...) returns
detect_garbage_bytes(g, img, inferOk, results) ==
    IF g.exc # "none" THEN {Raised(g.exc, <<"_get_model">>)}
    ELSE IF Image = None THEN {Raised("ModelLoadError", <<"_get_model">>)}
    ELSE IF img = NoSize THEN {Raised("ModelLoadError", <<"_get_model", "decode">>)}
    ELSE UNION {
           IF d.exc # "none"
           THEN {Raised(d.exc, <<"_get_model", "decode", "_maybe_downscale">>)}
           ELSE IF ~inferOk
           THEN {[exc |-> "Exception",
                  steps |-> <<"_get_model", "decode", "_maybe_downscale", "model">>,
                  passed |-> d.size, result |-> NoResult]}
           ELSE LET t == Tally(results, 0, 0)
                IN  {[exc |-> "none",
                      steps |-> <<"_get_model", "decode", "_maybe_downscale", "model">>,
                      passed |-> d.size,
                      result |-> ResultDict(t[1], mc, d.size)] : mc \in Round4(t[2])}
         : d \in _maybe_downscale(img)}

\* detect_garbage(image_path): any(len(r.boxes) > 0 for r in results), which
\* stops at the first result with a box and raises TypeError on boxes = None
RECURSIVE detect_garbage(_)
detect_garbage(results) ==
    IF results = <<>> THEN "False"
    ELSE IF ~Head(results).has THEN "TypeError"
    ELSE IF Len(Head(results).conf) > 0 THEN "True"
    ELSE detect_garbage(Tail(results))

\* ------------------------------------------------------------ POST /detect
detect_nogate(ready, n, o) ==
    IF FALSE
    THEN [status |-> 503, detail |-> "Model is warming up, try again shortly",
          steps |-> <<"model_ready">>, called |-> FALSE]
    ELSE IF n = 0
    THEN [status |-> 400, detail |-> "Empty file uploaded",
          steps |-> <<"model_ready", "read", "close">>, called |-> FALSE]
    ELSE IF n > MAX_UPLOAD_BYTES
    THEN [status |-> 413, detail |-> "File too large",
          steps |-> <<"model_ready", "read", "close">>, called |-> FALSE]
    ELSE [status |-> IF o.exc = "none" THEN 200 ELSE 500,
          detail |-> IF o.exc = "none" THEN ""
                     ELSE IF o.exc = "ModelLoadError" THEN "Model load error"
                     ELSE "Inference error",
          steps |-> <<"model_ready", "read", "close", "detect_garbage_bytes">>,
          called |-> TRUE]

detect_offbyone(ready, n, o) ==
    IF ~ready
    THEN [status |-> 503, detail |-> "Model is warming up, try again shortly",
          steps |-> <<"model_ready">>, called |-> FALSE]
    ELSE IF n = 0
    THEN [status |-> 400, detail |-> "Empty file uploaded",
          steps |-> <<"model_ready", "read", "close">>, called |-> FALSE]
    ELSE IF n >= MAX_UPLOAD_BYTES
    THEN [status |-> 413, detail |-> "File too large",
          steps |-> <<"model_ready", "read", "close">>, called |-> FALSE]
    ELSE [status |-> IF o.exc = "none" THEN 200 ELSE 500,
          detail |-> IF o.exc = "none" THEN ""
                     ELSE IF o.exc = "ModelLoadError" THEN "Model load error"
                     ELSE "Inference error",
          steps |-> <<"model_ready", "read", "close", "detect_garbage_bytes">>,
          called |-> TRUE]

detect_mislabel(ready, n, o) ==
    IF ~ready
    THEN [status |-> 503, detail |-> "Model is warming up, try again shortly",
          steps |-> <<"model_ready">>, called |-> FALSE]
    ELSE IF n = 0
    THEN [status |-> 400, detail |-> "Empty file uploaded",
          steps |-> <<"model_ready", "read", "close">>, called |-> FALSE]
    ELSE IF n > MAX_UPLOAD_BYTES
    THEN [status |-> 413, detail |-> "File too large",
          steps |-> <<"model_ready", "read", "close">>, called |-> FALSE]
    ELSE [status |-> IF o.exc = "none" THEN 200 ELSE 500,
          detail |-> IF o.exc = "none" THEN ""
                     ELSE "Inference error",
          steps |-> <<"model_ready", "read", "close", "detect_garbage_bytes">>,
          called |-> TRUE]

\* The response of the /detect handler to an upload of n bytes; o is the outcome
\* of detect_garbage_bytes(content), used only when the handler gets that far.
\* file is a required File(...) parameter, so the "file is None" branch is dead.
\* steps lists what the handler did, in order, before the response.
detect(ready, n, o) ==
    IF ~ready
    THEN [status |-> 503, detail |-> "Model is warming up, try again shortly",
          steps |-> <<"model_ready">>, called |-> FALSE]
    ELSE IF n = 0
    THEN [status |-> 400, detail |-> "Empty file uploaded",
          steps |-> <<"model_ready", "read", "close">>, called |-> FALSE]
    ELSE IF n > MAX_UPLOAD_BYTES
    THEN [status |-> 413, detail |-> "File too large",
          steps |-> <<"model_ready", "read", "close">>, called |-> FALSE]
    ELSE [status |-> IF o.exc = "none" THEN 200 ELSE 500,
          detail |-> IF o.exc = "none" THEN ""
                     ELSE IF o.exc = "ModelLoadError" THEN "Model load error"
                     ELSE "Inference error",
          steps |-> <<"model_ready", "read", "close", "detect_garbage_bytes">>,
          called |-> TRUE]

\* whether the handler reaches detect_garbage_bytes for an upload of n bytes
Reaches(ready, n) == detect(ready, n, Raised("none", <<>>)).called

\* model_ready(): whether warmup_model() has completed
model_ready == model_ready_flag

\* ------------------------------------------------------------------ inputs
Sides == (1 .. MaxSmallSide) \cup ((MAX_SIDE - MaxSideDelta) .. (MAX_SIDE + MaxSideDelta))
Sizes == Sides \X Sides
\* what uploaded bytes decode to: an image of some size, or nothing (NoSize)
Images == Sizes \cup {NoSize}
FewImages == {NoSize, <<1, 1>>, <<MAX_SIDE + 1, 1>>, <<MAX_SIDE + 1, MAX_SIDE>>}

BoxSeqs == UNION {[1..k -> Confs] : k \in 0..MaxLen}
ResultValues ==
    {[has |-> FALSE, conf |-> <<>>]} \cup {[has |-> TRUE, conf |-> c] : c \in BoxSeqs}
ResultLists == UNION {[1..k -> ResultValues] : k \in 0..MaxLen}
FewResults ==
    {<<>>, <<[has |-> TRUE, conf |-> <<CONF_THRESH + 5>>]>>,
     <<[has |-> FALSE, conf |-> <<>>], [has |-> TRUE, conf |-> <<CONF_THRESH>>]>>}

UploadSizes == {0, 1, MAX_UPLOAD_BYTES, MAX_UPLOAD_BYTES + 1}

\* YOLO(...) returns or raises; the choice exists only when _get_model gets to it
CtorOutcomes == IF cache # NoModel \/ YOLO = None THEN {TRUE} ELSE BOOLEAN

\* <<inferOk, results>> of model(img, ...), a choice only when that call is reached
InferOutcomes(g, img, resultLists) ==
    IF g.exc = "none" /\ Image # None /\ img # NoSize
    THEN {<<TRUE, rs>> : rs \in resultLists} \cup {<<FALSE, <<>>>>}
    ELSE {<<FALSE, <<>>>>}

\* ------------------------------------------------------------------- state
NoCall ==
    [op |-> "none", n |-> 0, img |-> NoSize, results |-> <<>>,
     status |-> 0, detail |-> "", steps |-> <<>>,
     exc |-> "none", svc |-> <<>>, passed |-> NoSize, result |-> NoResult,
     returned |-> "", model |-> 0, ctor |-> FALSE]

\* After the imports of app.services.detection and app.routes: the optional
\* imports and the weight download have succeeded or failed, nothing is loaded.
Init ==
    /\ YOLO \in {None, "YOLO"}
    /\ Image \in {None, "PIL"}
    /\ DEFAULT_CUSTOM \in {None, HfPath}
    /\ environ \in EnvValues
    /\ exists \in SUBSET AllPaths
    /\ DEFAULT_CUSTOM = None => HfPath \notin exists
    /\ cache = NoModel
    /\ ctorCalls = 0
    /\ ctorOk = 0
    /\ ctorArg = None
    /\ model_ready_flag = FALSE
    /\ last = NoCall

\* ----------------------------------------------------------------- actions
\* the environment variable is set, changed or removed
SetEnv ==
    /\ \E v \in EnvValues : environ' = v
    /\ UNCHANGED <<config, exists, loader, model_ready_flag, last>>

\* a weight file appears or disappears
FsChange ==
    /\ \E p \in AllPaths :
         /\ p = HfPath => DEFAULT_CUSTOM # None
         /\ exists' = IF p \in exists THEN exists \ {p} ELSE exists \cup {p}
    /\ UNCHANGED <<config, environ, loader, model_ready_flag, last>>

\* GET /health
health ==
    /\ last' = [NoCall EXCEPT !.op = "health", !.status = 200]
    /\ UNCHANGED <<config, environ, exists, loader, model_ready_flag>>

\* warmup_model(), called by the startup handler (and by smoke_test): loads the
\* model and marks it ready once that has succeeded
warmup_model ==
    /\ \E ok \in BOOLEAN :
         LET g == _get_model(ok)
         IN  /\ Loaded(g)
             /\ model_ready_flag' = (model_ready_flag \/ g.exc = "none")
             /\ last' = [NoCall EXCEPT !.op = "warmup_model", !.exc = g.exc,
                                       !.svc = <<"_get_model">>, !.model = g.model.id,
                                       !.ctor = g.ctor]
    /\ UNCHANGED <<config, environ, exists>>

\* a direct call of detect_garbage(image_path)
DetectGarbageCall ==
    /\ \E ok \in CtorOutcomes, inferOk \in BOOLEAN, results \in FewResults :
         LET g == _get_model(ok)
             ret == detect_garbage(results)
         IN  /\ g.exc # "none" \/ ~inferOk => results = <<>>
             /\ Loaded(g)
             /\ last' = [NoCall EXCEPT
                  !.op = "detect_garbage", !.model = g.model.id, !.ctor = g.ctor,
                  !.results = IF g.exc = "none" /\ inferOk THEN results ELSE <<>>,
                  !.svc = IF g.exc = "none" THEN <<"_get_model", "model">>
                          ELSE <<"_get_model">>,
                  !.exc = IF g.exc # "none" THEN g.exc
                          ELSE IF ~inferOk \/ ret = "TypeError" THEN "Exception"
                          ELSE "none",
                  !.returned = IF g.exc = "none" /\ inferOk /\ ret # "TypeError"
                               THEN ret ELSE ""]
    /\ UNCHANGED <<config, environ, exists, model_ready_flag>>

\* a direct call of detect_garbage_bytes(data)
DetectGarbageBytesCall(images, resultLists) ==
    /\ \E ok \in CtorOutcomes, img \in images :
         LET g == _get_model(ok)
         IN  \E io \in InferOutcomes(g, img, resultLists) :
             \E o \in detect_garbage_bytes(g, img, io[1], io[2]) :
               /\ Loaded(g)
               /\ last' = [NoCall EXCEPT
                    !.op = "detect_garbage_bytes", !.img = img, !.model = g.model.id,
                    !.ctor = g.ctor,
                    !.results = io[2],
                    !.exc = o.exc, !.svc = o.steps, !.passed = o.passed,
                    !.result = o.result]
    /\ UNCHANGED <<config, environ, exists, model_ready_flag>>

\* POST /detect with an upload of n bytes
HttpDetect(images, resultLists) ==
    /\ \E n \in UploadSizes :
         IF Reaches(model_ready, n)
         THEN \E ok \in CtorOutcomes, img \in images :
                LET g == _get_model(ok)
                IN  \E io \in InferOutcomes(g, img, resultLists) :
                    \E o \in detect_garbage_bytes(g, img, io[1], io[2]) :
                      LET resp == detect(model_ready, n, o)
                      IN  /\ Loaded(g)
                          /\ last' = [NoCall EXCEPT
                               !.op = "detect", !.n = n, !.img = img,
                               !.model = g.model.id, !.ctor = g.ctor,
                               !.results = io[2],
                               !.status = resp.status, !.detail = resp.detail,
                               !.steps = resp.steps,
                               !.exc = o.exc, !.svc = o.steps, !.passed = o.passed,
                               !.result = o.result]
         ELSE LET resp == detect(model_ready, n, Raised("none", <<>>))
              IN  /\ last' = [NoCall EXCEPT
                       !.op = "detect", !.n = n, !.status = resp.status,
                       !.detail = resp.detail, !.steps = resp.steps]
                  /\ UNCHANGED loader
    /\ UNCHANGED <<config, environ, exists, model_ready_flag>>

Next ==
    \/ SetEnv
    \/ FsChange
    \/ health
    \/ warmup_model
    \/ DetectGarbageCall
    \/ DetectGarbageBytesCall(FewImages, FewResults)
    \/ HttpDetect(FewImages, FewResults)

Spec == Init /\ [][Next]_vars

\* The first call of detect_garbage_bytes after import, with YOLO_MODEL_PATH
\* unset, over every image size of Sizes and every result list of ResultLists.
InitInfer == Init /\ environ = None /\ exists \subseteq {HfPath}

DetectSizes == last = NoCall /\ DetectGarbageBytesCall(Images, FewResults)

DetectResults == last = NoCall /\ DetectGarbageBytesCall(FewImages, ResultLists)

NextInfer == DetectSizes \/ DetectResults

SpecInfer == InitInfer /\ [][NextInfer]_vars

\* ================================================================== claims
\* a step that is one call (of a handler or of the service), not a change of
\* the environment variable or of the file system
CallStep == environ' = environ /\ exists' = exists
ServiceOps == {"detect_garbage", "detect_garbage_bytes"}

\* C1: lazy singleton load. Import constructs no model; a call of
\* detect_garbage or detect_garbage_bytes made while no model is cached invokes
\* the YOLO constructor; once a construction has succeeded the constructor is
\* never invoked again, the cached instance never changes and every later call
\* uses it, whatever YOLO_MODEL_PATH becomes; at most one construction succeeds.
C1_LazySingleton ==
    /\ cache = NoModel /\ ctorCalls = 0
    /\ [][/\ (CallStep /\ last'.op \in ServiceOps /\ cache = NoModel /\ YOLO # None)
               => ctorCalls' = ctorCalls + 1 /\ last'.ctor
          /\ cache # NoModel
               => /\ cache' = cache
                  /\ ctorCalls' = ctorCalls
                  /\ (CallStep /\ last'.op \in ServiceOps \cup {"detect", "warmup_model"})
                       => ~last'.ctor /\ last'.model \in {0, cache.id}
                  /\ (CallStep /\ last'.op \in ServiceOps) => last'.model = cache.id
          /\ ctorOk' <= 1]_vars

\* a call served from the cache after YOLO_MODEL_PATH has come to select another
\* weight than the one the cached model was built from
C1_Witness ==
    /\ last.op = "detect_garbage_bytes" /\ ~last.ctor
    /\ cache # NoModel /\ last.model = cache.id
    /\ cache.weight # WeightName(environ, DEFAULT_CUSTOM, exists)
    /\ ctorOk = 1

\* the two usable custom weights, as the claim words them
EnvUsable == environ \notin {None, ""} /\ environ \in exists
DownloadUsable == DEFAULT_CUSTOM # None /\ DEFAULT_CUSTOM \in exists

\* C2: weight selection priority. Whenever a call invokes the constructor, its
\* argument is YOLO_MODEL_PATH if that is set and exists; otherwise the
\* downloaded file if the download succeeded and the file exists; otherwise
\* "yolov8n.pt": exactly one of the three, and never a missing path.
C2_WeightPriority ==
    [][ctorCalls' = ctorCalls + 1 =>
        /\ EnvUsable => ctorArg' = environ
        /\ (~EnvUsable /\ DownloadUsable) => ctorArg' = DEFAULT_CUSTOM
        /\ (~EnvUsable /\ ~DownloadUsable) => ctorArg' = "yolov8n.pt"
        /\ ctorArg' \in exists \cup {"yolov8n.pt"}]_vars

\* YOLO_MODEL_PATH names a missing file and the download is there: it is loaded
C2_Witness ==
    /\ last.ctor /\ last.exc = "none"
    /\ environ \notin {None, ""} /\ environ \notin exists
    /\ DownloadUsable /\ ctorArg = HfPath /\ cache.weight = HfPath

Inferred == last.op \in {"detect", "detect_garbage_bytes"} /\ Len(last.svc) = 4

\* C4: image-size clamping. The image passed to the model has
\* max(width, height) <= MAX_SIDE; an input with max(w, h) <= MAX_SIDE is passed
\* unchanged; otherwise each side is the input side scaled by MAX_SIDE / max(w, h)
\* and truncated (in double arithmetic: the floor of the exact quotient, or one
\* less where the quotient is an integer).
C4_Clamp ==
    Inferred =>
        LET w == last.img[1]
            h == last.img[2]
            m == Max(w, h)
            p == last.passed
        IN  /\ Max(p[1], p[2]) <= MAX_SIDE
            /\ m <= MAX_SIDE => p = last.img
            /\ m > MAX_SIDE =>
                 /\ p[1] * m <= w * MAX_SIDE /\ (p[1] + 1) * m >= w * MAX_SIDE
                 /\ p[2] * m <= h * MAX_SIDE /\ (p[2] + 1) * m >= h * MAX_SIDE

\* an image one pixel too wide was scaled down before inference
C4_Witness ==
    /\ Inferred /\ last.exc = "none"
    /\ last.img = <<MAX_SIDE + 1, MAX_SIDE>>
    /\ last.passed = <<MAX_SIDE, MAX_SIDE - 1>>

\* what the claims say of a result list, computed from the list itself
RECURSIVE TotalBoxes(_)
TotalBoxes(rs) ==
    IF rs = <<>> THEN 0
    ELSE (IF Head(rs).has THEN Len(Head(rs).conf) ELSE 0) + TotalBoxes(Tail(rs))
BoxConfs(rs) ==
    UNION {{rs[i].conf[j] : j \in 1..Len(rs[i].conf)} : i \in {k \in 1..Len(rs) : rs[k].has}}
MaxConf(rs) ==
    IF BoxConfs(rs) = {} THEN 0
    ELSE CHOOSE c \in BoxConfs(rs) : \A d \in BoxConfs(rs) : d <= c
Returned == last.op \in {"detect", "detect_garbage_bytes"} /\ last.result # NoResult

\* C5 as stated: detections is the sum of the box counts, garbage_detected is
\* detections > 0, and max_confidence equals the largest box confidence.
C5_MaxConfidenceExact ==
    Returned =>
        /\ last.result.detections = TotalBoxes(last.results)
        /\ last.result.garbage_detected = (last.result.detections > 0)
        /\ last.result.max_confidence = MaxConf(last.results)

\* C5 as amended: detections is the sum of the box counts (results without boxes
\* count 0), garbage_detected is detections > 0, and max_confidence is the
\* largest box confidence rounded to 4 decimal places (0 when there are no boxes).
C5_MaxConfidenceRounded ==
    Returned =>
        /\ last.result.detections = TotalBoxes(last.results)
        /\ last.result.garbage_detected = (last.result.detections > 0)
        /\ last.result.max_confidence % RoundUnit = 0
        /\ 2 * (last.result.max_confidence - MaxConf(last.results)) <= RoundUnit
        /\ 2 * (MaxConf(last.results) - last.result.max_confidence) <= RoundUnit

\* two results, one without boxes and one with two boxes whose larger
\* confidence is rounded up
C5_Witness ==
    /\ Returned /\ Len(last.results) = 2
    /\ ~last.results[1].has
    /\ last.results[2].conf = <<CONF_THRESH + 4, ConfScale - 4>>
    /\ last.result.detections = 2 /\ last.result.max_confidence = ConfScale

\* C6: upload validation with the model ready. An empty upload is answered 400
\* and one longer than MAX_UPLOAD_BYTES 413, neither calling
\* detect_garbage_bytes; an upload of 1..MAX_UPLOAD_BYTES bytes is passed to
\* detect_garbage_bytes; on each path the upload was read and then closed before
\* anything else happened.
C6_UploadValidation ==
    (last.op = "detect" /\ model_ready_flag) =>
        /\ last.n = 0 => last.status = 400 /\ Len(last.steps) = 3 /\ last.svc = <<>>
        /\ last.n > MAX_UPLOAD_BYTES
             => last.status = 413 /\ Len(last.steps) = 3 /\ last.svc = <<>>
        /\ (1 <= last.n /\ last.n <= MAX_UPLOAD_BYTES)
             => /\ last.steps = <<"model_ready", "read", "close", "detect_garbage_bytes">>
                /\ last.svc # <<>>
                /\ last.status \in {200, 500}
        /\ SubSeq(last.steps, 1, 3) = <<"model_ready", "read", "close">>

\* an upload of exactly MAX_UPLOAD_BYTES bytes went through to the service
C6_Witness ==
    /\ last.op = "detect" /\ model_ready_flag
    /\ last.n = MAX_UPLOAD_BYTES /\ last.n = 5242880
    /\ last.status = 200 /\ last.svc # <<>>

\* C7: error mapping. Once /detect calls detect_garbage_bytes the response is
\* 200 on a return, 500 "Model load error" on a ModelLoadError and 500
\* "Inference error" on any other exception; undecodable bytes raise
\* ModelLoadError, so they are answered 500 "Model load error"; and in every
\* call of detect_garbage_bytes decoding comes second, after _get_model().
C7_ErrorMapping ==
    /\ (last.op = "detect" /\ Len(last.steps) = 4) =>
          /\ last.exc = "none" => last.status = 200 /\ last.result # NoResult
          /\ last.exc = "ModelLoadError"
               => last.status = 500 /\ last.detail = "Model load error"
          /\ last.exc = "Exception"
               => last.status = 500 /\ last.detail = "Inference error"
          /\ last.img = NoSize => last.exc = "ModelLoadError"
    /\ last.op \in {"detect", "detect_garbage_bytes"} =>
          /\ \A i \in 1..Len(last.svc) :
                last.svc[i] = "decode" => i = 2 /\ last.svc[1] = "_get_model"
          /\ (last.img = NoSize /\ Len(last.svc) >= 1 /\ last.exc # "ModelLoadError")
               => last.svc = <<"_get_model">> /\ last.ctor

\* undecodable bytes were uploaded: 500 "Model load error", after the model lookup
C7_Witness ==
    /\ last.op = "detect" /\ last.img = NoSize
    /\ last.svc = <<"_get_model", "decode">>
    /\ last.status = 500 /\ last.detail = "Model load error"

\* C8: "resized" is true exactly when the input image was downscaled, that is
\* when the larger side of the decoded input exceeded MAX_SIDE.
C8_ResizedIffDownscaled ==
    Returned => (last.result.resized <=> Max(last.img[1], last.img[2]) > MAX_SIDE)

====
